---- MODULE Spec2Model ----
(***************************************************************************)
(* memvfs: an in-memory sqlite3 VFS (src/memvfs.go).                       *)
(*                                                                         *)
(* MemVFS  = { mu sync.Mutex; files map[string][]byte }                    *)
(* MemFile = { store *MemVFS; fileName string; lockLevel; mu sync.Mutex }  *)
(*                                                                         *)
(* A Go slice is a view (array, len) of a backing array, so the model      *)
(* keeps a heap of backing arrays and the map holds slice headers: two     *)
(* slices of one array alias, as they do in Go.  Goroutines run the        *)
(* methods step by step: a mutex acquisition, the work done under it, a    *)
(* byte copied by copy(), the deferred unlocks at return.                  *)
(***************************************************************************)
EXTENDS Integers, Sequences, FiniteSets, TLC

VARIABLES
    files,      \* MemVFS.files: name -> slice header, domain = the keys present
    heap,       \* backing arrays of the slices: array id -> bytes
    hname,      \* MemFile.fileName of each handle ("" = handle not yet opened)
    hlevel,     \* MemFile.lockLevel of each handle
    hmu,        \* MemFile.mu of each handle: the goroutine holding it, or ""
    vmu,        \* MemVFS.mu: the goroutine holding it, or ""
    cur,        \* per goroutine: the call in progress and its local variables
    crashed,    \* a goroutine has panicked (the process ends when it has unwound)
    gone,       \* history: names deleted and not opened, written or truncated since
    written,    \* history: per name, what the writes and truncates so far amount to
    lim         \* the workload of this run: goroutines, names, sizes, offsets

vars == <<files, heap, hname, hlevel, hmu, vmu, cur, crashed, gone, written, lim>>

(***************************************************************************)
(* Bounds of the model.                                                    *)
(***************************************************************************)
\* largest file size a write or truncate of the workload produces
MaxLen == 3
\* longest payload of a write and longest buffer of a read
MaxBuf == 2
\* the same two bounds in the workload with two names
NamesMaxLen == 2
NamesMaxBuf == 1
\* and in the workload with two goroutines
ConcMaxLen == 2
ConcMaxBuf == 2

\* and in the workload with two writers: the longest payload, the largest
\* size the file has before the two writes, the largest size after them
WritersMaxBuf == 2
WritersMaxOld == 2
WritersMaxLen == 2 * WritersMaxBuf

\* and in the workload of the lock calls: the largest size Truncate sets
LocksMaxLen == 1

\* and in the workload where two goroutines make every call
LiveMaxLen == 1
LiveMaxBuf == 1

\* and in the workload where two goroutines work on two names
IsoMaxLen == 1
IsoMaxBuf == 1

\* and in the workload where one goroutine keeps what GetFile returned
SnapMaxLen == 1
SnapMaxBuf == 1

NameSeq == <<"a", "b">>
ThreadSeq == <<"t1", "t2">>
Names == {NameSeq[k] : k \in DOMAIN NameSeq}
Threads == {ThreadSeq[k] : k \in DOMAIN ThreadSeq}
Handles == {"h1", "h2"}
NoName == ""
NoThread == ""

(***************************************************************************)
(* int64: four 16-bit limbs, most significant first, two's complement.     *)
(***************************************************************************)
LimbBase == 2^16

I64(n) ==
    IF n >= 0 THEN <<0, 0, 0, n>>
    ELSE <<LimbBase - 1, LimbBase - 1, LimbBase - 1, LimbBase + n>>

MaxInt64 == <<(LimbBase \div 2) - 1, LimbBase - 1, LimbBase - 1, LimbBase - 1>>

\* a + b on int64, wrapping as Go's + does
I64Add(a, b) ==
    LET s4 == a[4] + b[4]
        s3 == a[3] + b[3] + (s4 \div LimbBase)
        s2 == a[2] + b[2] + (s3 \div LimbBase)
        s1 == a[1] + b[1] + (s2 \div LimbBase)
    IN  <<s1 % LimbBase, s2 % LimbBase, s3 % LimbBase, s4 % LimbBase>>

I64Neg(a) == a[1] >= LimbBase \div 2

\* a < b on int64 (signed)
I64Less(a, b) ==
    IF I64Neg(a) # I64Neg(b) THEN I64Neg(a)
    ELSE \E k \in 1..4 : a[k] < b[k] /\ \A j \in 1..(k - 1) : a[j] = b[j]

\* the value of an int64 that fits one limb, as an index
I64ToInt(a) == IF I64Neg(a) THEN a[4] - LimbBase ELSE a[4]

I64Small(a) ==
    \/ a[1] = 0 /\ a[2] = 0 /\ a[3] = 0
    \/ a[1] = LimbBase - 1 /\ a[2] = LimbBase - 1 /\ a[3] = LimbBase - 1 /\ a[4] >= LimbBase \div 2

(***************************************************************************)
(* Slices and the heap.                                                    *)
(***************************************************************************)
ArrIds == 1..(Len(NameSeq) + Len(ThreadSeq) + 1)

\* the nil slice, and []byte{} (no backing array, length 0)
NilSlice == [arr |-> 0, len |-> 0]

\* the bytes a slice shows: the first len bytes of its backing array
View(hp, s) == IF s.arr = 0 THEN << >> ELSE SubSeq(hp[s.arr], 1, s.len)

\* data, ok := v.files[name]  (the zero value, nil, when the key is absent)
Lookup(fs, name) == IF name \in DOMAIN fs THEN fs[name] ELSE NilSlice

\* a bug: the new slice is never stored in the map
PutNothing(fs, name, s) == fs

\* a bug: the new slice is stored under every key
PutEverywhere(fs, name, s) == [m \in (DOMAIN fs) \cup {name} |-> s]

\* v.files[name] = s
Put(fs, name, s) ==
    [m \in (DOMAIN fs) \cup {name} |-> IF m = name THEN s ELSE fs[m]]

\* a bug: the new array is not zeroed
MakeDirty(n) == [i \in 1..n |-> 1]

\* make([]byte, n)
Make(n) == [i \in 1..n |-> 0]

\* a bug: copy(dst, src), the offset forgotten
CopyIntoStart(dst, at, src) ==
    [i \in 1..Len(dst) |-> IF i <= Len(src) THEN src[i] ELSE dst[i]]

\* copy(dst[at:], src): min(len(dst)-at, len(src)) bytes, the rest of dst kept
CopyInto(dst, at, src) ==
    [i \in 1..Len(dst) |->
        IF i > at /\ i - at <= Len(src) THEN src[i - at] ELSE dst[i]]

\* the store as callers see it: name -> contents
Store(fs, hp) == [m \in DOMAIN fs |-> View(hp, fs[m])]

\* the contents of a name, the empty sequence when the name is absent
Contents(fs, hp, name) == View(hp, Lookup(fs, name))

(***************************************************************************)
(* The methods' computations, as functions of what they read.              *)
(***************************************************************************)
ShortRead == "IOErrorShortRead"
NoErr == "nil"
ErrNegative == "negative offset + length"
ErrNotFound == "file not found in memvfs"

\* MemVFS.getFile: the slice of the name, created empty when absent
getFile(fs, name) ==
    IF name \in DOMAIN fs
    THEN [files |-> fs, data |-> fs[name]]
    ELSE [files |-> Put(fs, name, NilSlice), data |-> NilSlice]

\* a bug: a buffer of length zero is reported as not found
GetFileEmptyIsMissing(fs, name) ==
    IF name \in DOMAIN fs /\ fs[name].len > 0
    THEN [data |-> fs[name], err |-> NoErr]
    ELSE [data |-> NilSlice, err |-> ErrNotFound]

\* MemVFS.GetFile: the slice itself (not a copy), or the not-found error
GetFile(fs, name) ==
    IF name \in DOMAIN fs
    THEN [data |-> fs[name], err |-> NoErr]
    ELSE [data |-> NilSlice, err |-> ErrNotFound]

\* a bug: the short read copies what there is and leaves the rest of p alone
ReadAtNoZeroFill(data, p, off) ==
    LET fileLen == I64(Len(data))
        end     == I64Add(off, I64(Len(p)))
    IN  IF ~I64Less(off, fileLen)
        THEN [p |-> Make(Len(p)), n |-> Len(p), err |-> ShortRead]
        ELSE IF I64Less(fileLen, end)
        THEN LET n == Len(data) - I64ToInt(off)
             IN  [p |-> [i \in 1..Len(p) |->
                            IF i <= n THEN data[I64ToInt(off) + i] ELSE p[i]],
                  n |-> Len(p), err |-> ShortRead]
        ELSE [p |-> [i \in 1..Len(p) |-> data[I64ToInt(off) + i]],
              n |-> Len(p), err |-> NoErr]

\* MemFile.ReadAt after getFile: data are the bytes the slice shows, p the
\* caller's buffer, off an int64
ReadAt(data, p, off) ==
    LET fileLen == I64(Len(data))
        end     == I64Add(off, I64(Len(p)))
    IN  IF ~I64Less(off, fileLen)
        THEN [p |-> Make(Len(p)), n |-> Len(p), err |-> ShortRead]
        ELSE IF I64Less(fileLen, end)
        THEN LET n == Len(data) - I64ToInt(off)
             IN  [p |-> [i \in 1..Len(p) |->
                            IF i <= n THEN data[I64ToInt(off) + i] ELSE 0],
                  n |-> Len(p), err |-> ShortRead]
        ELSE [p |-> [i \in 1..Len(p) |-> data[I64ToInt(off) + i]],
              n |-> Len(p), err |-> NoErr]

\* MemFile.ReadAt, the panic: off below fileLen passes the first test, and
\* the slice expression (data[off:fileLen] or data[off:end]) panics when
\* off is negative
ReadAtPanics(fileLen, off) == I64Less(off, I64(fileLen)) /\ I64Neg(off)

\* a bug: a new array of newEnd bytes is made even when the write lies
\* inside the file
WriteAtBranchNoInplace(oldLen, p, off) ==
    LET newEnd == I64Add(off, I64(Len(p)))
    IN  IF I64Neg(newEnd) THEN "error"
        ELSE IF ~I64Small(newEnd) \/ I64Neg(off) THEN "panic" ELSE "grow"

\* a bug: newEnd is not tested for being negative
WriteAtBranchNoCheck(oldLen, p, off) ==
    LET newEnd == I64Add(off, I64(Len(p)))
    IN  IF I64Less(I64(oldLen), newEnd)
        THEN IF ~I64Small(newEnd) \/ I64Neg(off) THEN "panic" ELSE "grow"
        ELSE IF I64Neg(off) THEN "panic" ELSE "inplace"

\* MemFile.WriteAt, the branch taken: newEnd < 0 is the error return; a
\* negative off that passes the check panics at the slice expression
\* (newData[off:] or data[off:]), and so does make with an impossible length
WriteAtBranch(oldLen, p, off) ==
    LET newEnd == I64Add(off, I64(Len(p)))
    IN  IF I64Neg(newEnd) THEN "error"
        ELSE IF I64Less(I64(oldLen), newEnd)
        THEN IF ~I64Small(newEnd) \/ I64Neg(off) THEN "panic" ELSE "grow"
        ELSE IF I64Neg(off) THEN "panic" ELSE "inplace"

\* a bug: the old bytes are not copied into the new array
WriteGrowNoOldCopy(data, p, off, newEnd) == CopyInto(Make(newEnd), off, p)

\* WriteAt's new array: make([]byte, newEnd); copy(newData, data);
\* copy(newData[off:], p)
WriteGrow(data, p, off, newEnd) ==
    CopyInto(CopyInto(Make(newEnd), 0, data), off, p)

\* Truncate's new array: make([]byte, size); copy(newData, data)
TruncateGrow(data, size) == CopyInto(Make(size), 0, data)

\* a bug: the shrink does not shrink
TruncateShrinkKeep(s, size) == s

\* Truncate's shrink: data[:size], the same backing array
TruncateShrink(s, size) == [arr |-> s.arr, len |-> size]

\* MemFile.Truncate, the branch taken: data[:size] panics when size is
\* negative, and so does make with an impossible length
TruncateBranch(currentLen, size) ==
    IF I64Less(size, I64(currentLen))
    THEN IF I64Neg(size) THEN "panic" ELSE "shrink"
    ELSE IF I64Less(I64(currentLen), size)
    THEN IF ~I64Small(size) THEN "panic" ELSE "grow"
    ELSE "same"

\* MemFile.FileSize
FileSize(fs, name) == Lookup(fs, name).len

\* a bug: the key stays in the map
DeleteNothing(fs, name) == fs

\* a bug: the whole map is cleared
DeleteAll(fs, name) == [m \in {} |-> NilSlice]

\* a bug: only an empty buffer is removed
DeleteIfEmpty(fs, name) ==
    IF name \in DOMAIN fs /\ fs[name].len = 0
    THEN [m \in (DOMAIN fs) \ {name} |-> fs[m]]
    ELSE fs

\* MemVFS.Delete: delete(v.files, name)
Delete(fs, name) == [m \in (DOMAIN fs) \ {name} |-> fs[m]]

\* MemVFS.Access
Access(fs, name) == name \in DOMAIN fs

\* MemVFS.Open: a new MemFile on the name; the map is not touched
Open(fs, name) == [files |-> fs, fileName |-> name, lockLevel |-> 0]

\* sqlite3vfs.LockType: LockNone, LockShared, LockReserved, LockPending,
\* LockExclusive, in this order from zero
LockReserved == 2
LockNone == LockReserved - 2
LockShared == LockReserved - 1
LockPending == LockReserved + 1
LockExclusive == LockReserved + 2
LockTypes == LockNone..LockExclusive

\* a bug: Lock stores the requested level whatever the handle holds
LockSet(lockLevel, lockType) == lockType

\* MemFile.Lock: f.lockLevel after Lock(lockType)
Lock(lockLevel, lockType) == IF lockLevel < lockType THEN lockType ELSE lockLevel

\* a bug: Unlock never lowers the level
UnlockKeepMax(lockLevel, lockType) == IF lockLevel < lockType THEN lockType ELSE lockLevel

\* MemFile.Unlock: f.lockLevel after Unlock(lockType)
Unlock(lockLevel, lockType) == lockType

\* a bug: the comparison is strict
CheckReservedLockStrict(lockLevel) == lockLevel > LockReserved

\* MemFile.CheckReservedLock
CheckReservedLock(lockLevel) == lockLevel >= LockReserved

(***************************************************************************)
(* Memory.  An array lives while the map, a local variable of a call in    *)
(* progress or a returned slice refers to it.  Addresses carry no meaning  *)
(* in Go, so after every step the live arrays are numbered in the order    *)
(* the map (by name) and then the goroutines refer to them.                *)
(***************************************************************************)
Roots(fs, cr) ==
    [k \in 1..(Len(NameSeq) + Len(ThreadSeq)) |->
        IF k <= Len(NameSeq) THEN Lookup(fs, NameSeq[k]).arr
        ELSE cr[ThreadSeq[k - Len(NameSeq)]].data.arr]

\* the number of a live array: its rank among the arrays the roots refer to
Rank(roots, a) ==
    IF a = 0 THEN 0
    ELSE LET first == CHOOSE k \in DOMAIN roots :
                          roots[k] = a /\ \A j \in 1..(k - 1) : roots[j] # a
         IN  Cardinality({roots[j] : j \in 1..first} \ {0})

\* allocation takes an unused array
NewArr(hp) == CHOOSE a \in ArrIds : hp[a] = << >>

(***************************************************************************)
(* What WriteAt, Truncate and ReadAt are expected to do, stated on byte    *)
(* sequences.                                                              *)
(***************************************************************************)
Max2(a, b) == IF a >= b THEN a ELSE b
Min2(a, b) == IF a <= b THEN a ELSE b

\* c after b is written at offset o: the gap zero, the rest of c kept
RefWrite(c, o, b) ==
    [i \in 1..Max2(Len(c), o + Len(b)) |->
        IF i > o /\ i <= o + Len(b) THEN b[i - o]
        ELSE IF i <= Len(c) THEN c[i] ELSE 0]

\* c cut or zero-extended to k bytes
RefTruncate(c, k) == [i \in 1..k |-> IF i <= Len(c) THEN c[i] ELSE 0]

\* k bytes read from c at offset o: the bytes there are, then zeros
RefRead(c, k, o) ==
    [i \in 1..k |-> IF o + i <= Len(c) THEN c[o + i] ELSE 0]

(***************************************************************************)
(* Goroutines.  cur[t] holds the call goroutine t is in: pc is where it    *)
(* stands; op, h, name the method, handle and file name; off, p, data, i   *)
(* the method's locals; n, err, ok what it returns.  pre, seen and over    *)
(* are history: the store when the body began, and for a read the contents *)
(* the file had from the call on (see Note); fresh is history too: when    *)
(* the call looked the name up, the name had been deleted and not opened,  *)
(* written or truncated since.  A call that has done its body stands at    *)
(* "ret" with its mutexes held, and at "unlock" when v.mu is released and  *)
(* f.mu is not yet; a call that panicked stands at "panic" while its       *)
(* deferred Unlocks run, and at "dead" when the process has ended.         *)
(***************************************************************************)
IdleRec ==
    [pc |-> "idle", op |-> "", h |-> "", name |-> "", off |-> I64(0),
     p |-> << >>, data |-> NilSlice, i |-> 0, n |-> 0, err |-> "",
     ok |-> FALSE, pre |-> << >>, seen |-> {}, over |-> 0, fresh |-> FALSE]

Payloads == UNION {[1..k -> lim.bytes] : k \in 0..lim.maxBuf}

\* the caller's buffer before the read: bytes the read has to overwrite
FreshBuf(k) == [i \in 1..k |-> 255]

WriteOffsets == {I64(k) : k \in -1..lim.maxLen} \cup {MaxInt64}
ReadOffsets == {I64(k) : k \in lim.minOff..lim.maxLen}
Sizes ==
    {I64(k) : k \in lim.minOff..lim.maxLen}
        \cup (IF lim.minOff < 0 THEN {MaxInt64} ELSE {})

\* the process runs: no panic has come out of its goroutine.  A panic
\* unwinds the goroutine it is in, the deferred calls run, and then the
\* runtime ends the process; the other goroutines run until then.
Alive == \A u \in Threads : cur[u].pc # "dead"

\* goroutine t is between calls and may call op
Idle(t, op) ==
    Alive /\ t \in lim.threads /\ cur[t].pc = "idle" /\ op \in lim.ops[t]

\* history: the store as a call finds it (kept when the workload asks for it)
Before(fs, hp) == IF lim.hist THEN Store(fs, hp) ELSE << >>

\* the contents name had in the store snapshot st (empty when absent)
Old(st, name) == IF name \in DOMAIN st THEN st[name] ELSE << >>

\* the goroutines in the middle of WriteAt's copy into name's array (v.mu is
\* held during the copy, so there is one at most)
Copying(name) ==
    {u \in Threads : cur[u].op = "WriteAt" /\ cur[u].pc = "w_copy" /\ cur[u].name = name}

\* history: the contents of name a read may return that begins now.  When a
\* WriteAt is in the middle of its copy the read overlaps that write: the
\* contents are those before the write and those after it, not the
\* half-written array of the moment.
SeenAtCall(name) ==
    IF ~lim.hist THEN {}
    ELSE IF Copying(name) = {} THEN {Contents(files, heap, name)}
    ELSE LET u   == CHOOSE w \in Copying(name) : TRUE
             old == Old(cur[u].pre, name)
         IN  {old, CopyInto(old, I64ToInt(cur[u].off), cur[u].p)}

\* history: a change of name's contents to c while reads of it are in
\* progress.  A read keeps the contents at its call and those after the one
\* change that overlaps it; over counts the overlapping changes, up to 2.
Note(cr, name, c) ==
    [u \in DOMAIN cr |->
        IF /\ lim.hist /\ cr[u].op = "ReadAt" /\ cr[u].name = name
           /\ cr[u].pc \notin {"ret", "panic"}
        THEN IF cr[u].over = 0
             THEN [cr[u] EXCEPT !.seen = @ \cup {c}, !.over = 1]
             ELSE [cr[u] EXCEPT !.seen = {}, !.over = 2]
        ELSE cr[u]]

\* the step's new map, heap and locals, the dead arrays freed and the live
\* ones renumbered
Commit(fs, hp, cr) ==
    \E f2 \in {fs}, h2 \in {hp}, c2 \in {cr} :
    \E roots \in {Roots(f2, c2)} :
    \E rank \in {[a \in ArrIds \cup {0} |->
                    IF a \in {roots[k] : k \in DOMAIN roots}
                    THEN Rank(roots, a) ELSE 0]} :
        /\ files' = [m \in DOMAIN f2 |-> [f2[m] EXCEPT !.arr = rank[@]]]
        /\ cur' = [t \in DOMAIN c2 |-> [c2[t] EXCEPT !.data.arr = rank[@]]]
        /\ heap' = [a \in ArrIds |->
                       IF \E b \in ArrIds : rank[b] = a
                       THEN h2[CHOOSE b \in ArrIds : rank[b] = a]
                       ELSE << >>]

\* the store with the map fs over the heap hp, nothing in progress
InitFrom(l, hn, fs, hp) ==
    /\ files = fs
    /\ heap = hp
    /\ hname = hn
    /\ hlevel = [h \in Handles |-> 0]
    /\ hmu = [h \in Handles |-> NoThread]
    /\ vmu = NoThread
    /\ cur = [t \in Threads |-> IdleRec]
    /\ crashed = FALSE
    /\ gone = {}
    /\ written = [m \in Names |-> View(hp, Lookup(fs, m))]
    /\ lim = l

\* New(): files: make(map[string][]byte)
InitWith(l, hn) ==
    InitFrom(l, hn, [m \in {} |-> NilSlice], [a \in ArrIds |-> << >>])

\* ---- MemVFS.Open
OpenCall(t, h, name) ==
    /\ Idle(t, "Open")
    /\ h \in lim.handles[t]
    /\ hname[h] = NoName
    /\ name \in lim.names
    /\ LET r == Open(files, name)
       IN  /\ Commit(r.files, heap,
                     [cur EXCEPT ![t] = [IdleRec EXCEPT !.pc = "ret", !.op = "Open",
                                            !.h = h, !.name = name, !.err = NoErr]])
           /\ hname' = [hname EXCEPT ![h] = r.fileName]
           /\ hlevel' = [hlevel EXCEPT ![h] = r.lockLevel]
    /\ gone' = gone \ {name}
    /\ UNCHANGED <<hmu, vmu, crashed, written, lim>>

\* f.mu.Lock() returns: the mutex was free and is now held by t
AcquireHandle(t, h, op) ==
    /\ hmu[h] = NoThread
    /\ hmu' = [hmu EXCEPT ![h] = t]
    /\ cur' = [cur EXCEPT ![t] =
                  [IdleRec EXCEPT !.pc = "locked", !.op = op, !.h = h,
                      !.name = hname[h],
                      !.seen = IF op = "ReadAt" THEN SeenAtCall(hname[h]) ELSE {},
                      !.over = IF /\ lim.hist /\ op = "ReadAt"
                                  /\ Copying(hname[h]) # {}
                               THEN 1 ELSE 0]]
    /\ UNCHANGED <<files, heap, hname, hlevel, vmu, crashed, gone, written, lim>>

\* ---- f.mu.Lock() at the head of ReadAt, WriteAt, Truncate, FileSize
LockHandle(t, h, op) ==
    /\ Idle(t, op)
    /\ h \in lim.handles[t]
    /\ hname[h] # NoName
    /\ AcquireHandle(t, h, op)

ReadAtLock(t, h) == LockHandle(t, h, "ReadAt")
WriteAtLock(t, h) == LockHandle(t, h, "WriteAt")
TruncateLock(t, h) == LockHandle(t, h, "Truncate")
FileSizeLock(t, h) == LockHandle(t, h, "FileSize")

Locked(t, op) ==
    Alive /\ cur[t].pc = "locked" /\ cur[t].op = op /\ vmu = NoThread

\* ---- ReadAt: data := f.store.getFile(f.fileName), the store mutex taken
\* and released inside getFile; then the tests of off and the slice
\* expression, which panics on a negative off (f.mu is held)
ReadAtGetFile(t, k, off) ==
    /\ Locked(t, "ReadAt")
    /\ LET r == getFile(files, cur[t].name)
       IN  IF ReadAtPanics(r.data.len, off)
           THEN /\ crashed' = TRUE
                /\ Commit(r.files, heap,
                          [cur EXCEPT ![t].pc = "panic", ![t].p = FreshBuf(k),
                              ![t].off = off, ![t].seen = {},
                              ![t].fresh = cur[t].name \in gone])
           ELSE /\ UNCHANGED crashed
                /\ Commit(r.files, heap,
                          [cur EXCEPT ![t].pc = "r_copy", ![t].data = r.data,
                              ![t].p = FreshBuf(k), ![t].off = off, ![t].i = 0,
                              ![t].fresh = cur[t].name \in gone])
    /\ UNCHANGED <<hname, hlevel, hmu, vmu, gone, written, lim>>

\* ---- ReadAt: one byte of the buffer filled, from the backing array as it
\* is now (no mutex of the store is held)
ReadAtCopy(t) ==
    /\ Alive
    /\ cur[t].pc = "r_copy"
    /\ cur[t].i < Len(cur[t].p)
    /\ LET r == ReadAt(View(heap, cur[t].data), cur[t].p, cur[t].off)
           j == cur[t].i + 1
       IN  cur' = [cur EXCEPT ![t].p[j] = r.p[j], ![t].i = j]
    /\ UNCHANGED <<files, heap, hname, hlevel, hmu, vmu, crashed, gone, written, lim>>

\* ---- ReadAt: return len(p) and the status; data is dead from here on
ReadAtDone(t) ==
    /\ Alive
    /\ cur[t].pc = "r_copy"
    /\ cur[t].i = Len(cur[t].p)
    /\ LET r == ReadAt(View(heap, cur[t].data), cur[t].p, cur[t].off)
       IN  Commit(files, heap,
                  [cur EXCEPT ![t].pc = "ret", ![t].n = r.n, ![t].err = r.err,
                      ![t].data = NilSlice])
    /\ UNCHANGED <<hname, hlevel, hmu, vmu, crashed, gone, written, lim>>

\* ---- WriteAt: v.mu.Lock() and the body up to the copy
WriteAtBody(t, p, off) ==
    /\ Locked(t, "WriteAt")
    /\ LET name   == cur[t].name
           data   == Lookup(files, name)
           oldLen == data.len
           newEnd == I64Add(off, I64(Len(p)))
           branch == WriteAtBranch(oldLen, p, off)
           base   == [cur[t] EXCEPT !.p = p, !.off = off, !.data = data,
                         !.pre = Before(files, heap), !.fresh = name \in gone]
       IN  \/ /\ branch = "error"
              /\ Commit(files, heap,
                        [cur EXCEPT ![t] =
                            [base EXCEPT !.pc = "ret", !.n = 0, !.err = ErrNegative]])
              /\ UNCHANGED <<crashed, gone, written>>
           \/ /\ branch = "panic"
              /\ crashed' = TRUE
              /\ Commit(files, heap, [cur EXCEPT ![t] = [base EXCEPT !.pc = "panic"]])
              /\ UNCHANGED <<gone, written>>
           \/ /\ branch = "grow"
              /\ I64ToInt(newEnd) <= lim.maxLen
              /\ LET a  == NewArr(heap)
                     nd == WriteGrow(View(heap, data), p, I64ToInt(off), I64ToInt(newEnd))
                 IN  Commit(Put(files, name, [arr |-> a, len |-> Len(nd)]),
                            [heap EXCEPT ![a] = nd],
                            Note([cur EXCEPT ![t] =
                                     [base EXCEPT !.pc = "ret", !.n = Len(p),
                                                  !.err = NoErr]], name, nd))
              /\ gone' = gone \ {name}
              /\ written' = [written EXCEPT ![name] = RefWrite(@, I64ToInt(off), p)]
              /\ UNCHANGED crashed
           \/ /\ branch = "inplace"
              /\ Commit(files, heap,
                        Note([cur EXCEPT ![t] = [base EXCEPT !.pc = "w_copy", !.i = 0]],
                             name, CopyInto(View(heap, data), I64ToInt(off), p)))
              /\ gone' = gone \ {name}
              /\ written' = [written EXCEPT ![name] = RefWrite(@, I64ToInt(off), p)]
              /\ UNCHANGED crashed
    /\ vmu' = t
    /\ UNCHANGED <<hname, hlevel, hmu, lim>>

\* ---- WriteAt: copy(data[off:], p), one byte into the backing array
WriteAtCopy(t) ==
    /\ Alive
    /\ cur[t].pc = "w_copy"
    /\ cur[t].i < Len(cur[t].p)
    /\ LET j == cur[t].i + 1
           a == cur[t].data.arr
       IN  /\ heap' = [heap EXCEPT ![a] =
                          CopyInto(@, I64ToInt(cur[t].off) + cur[t].i, <<cur[t].p[j]>>)]
           /\ cur' = [cur EXCEPT ![t].i = j]
    /\ UNCHANGED <<files, hname, hlevel, hmu, vmu, crashed, gone, written, lim>>

\* ---- WriteAt: v.files[f.fileName] = data; return len(p), nil
WriteAtStore(t) ==
    /\ Alive
    /\ cur[t].pc = "w_copy"
    /\ cur[t].i = Len(cur[t].p)
    /\ Commit(Put(files, cur[t].name, cur[t].data), heap,
              [cur EXCEPT ![t].pc = "ret", ![t].n = Len(cur[t].p), ![t].err = NoErr])
    /\ UNCHANGED <<hname, hlevel, hmu, vmu, crashed, gone, written, lim>>

\* ---- Truncate: v.mu.Lock() and the body
TruncateBody(t, size) ==
    /\ Locked(t, "Truncate")
    /\ LET name   == cur[t].name
           data   == Lookup(files, name)
           k      == I64ToInt(size)
           branch == TruncateBranch(data.len, size)
           base   == [cur EXCEPT ![t].pc = "ret", ![t].off = size, ![t].data = data,
                         ![t].err = NoErr, ![t].pre = Before(files, heap),
                         ![t].fresh = name \in gone]
       IN  \/ /\ branch = "panic"
              /\ crashed' = TRUE
              /\ Commit(files, heap, [base EXCEPT ![t].pc = "panic", ![t].err = ""])
              /\ UNCHANGED <<gone, written>>
           \/ /\ branch # "panic"
              /\ CASE branch = "shrink" ->
                          Commit(Put(files, name, TruncateShrink(data, k)), heap,
                                 Note(base, name, SubSeq(View(heap, data), 1, k)))
                   [] branch = "grow" ->
                          LET a  == NewArr(heap)
                              nd == TruncateGrow(View(heap, data), k)
                          IN  Commit(Put(files, name, [arr |-> a, len |-> Len(nd)]),
                                     [heap EXCEPT ![a] = nd], Note(base, name, nd))
                   [] OTHER -> Commit(files, heap, base)
              /\ gone' = gone \ {name}
              /\ written' = [written EXCEPT ![name] = RefTruncate(@, k)]
              /\ UNCHANGED crashed
    /\ vmu' = t
    /\ UNCHANGED <<hname, hlevel, hmu, lim>>

\* ---- FileSize: v.mu.Lock() and the body
FileSizeBody(t) ==
    /\ Locked(t, "FileSize")
    /\ vmu' = t
    /\ cur' = [cur EXCEPT ![t].pc = "ret", ![t].n = FileSize(files, cur[t].name),
                  ![t].err = NoErr, ![t].fresh = cur[t].name \in gone]
    /\ UNCHANGED <<files, heap, hname, hlevel, hmu, crashed, gone, written, lim>>

\* Delete under the store mutex, as Delete itself or as Close
DeleteBody(t, op, h, name) ==
    /\ vmu = NoThread
    /\ vmu' = t
    /\ Commit(Delete(files, name), heap,
              Note([cur EXCEPT ![t] =
                      [IdleRec EXCEPT !.pc = "ret", !.op = op, !.h = h, !.name = name,
                          !.err = NoErr, !.pre = Before(files, heap)]], name, << >>))
    /\ gone' = gone \cup {name}
    /\ written' = [written EXCEPT ![name] = << >>]
    /\ UNCHANGED <<hname, hlevel, hmu, crashed, lim>>

\* a call that is Delete under the store mutex: Delete itself, and Close
DeleteAs(t, op, h, name) ==
    /\ Idle(t, op)
    /\ DeleteBody(t, op, h, name)

\* ---- MemFile.Close: f.store.Delete(f.fileName, true); f.mu is not taken
CloseCall(t, h) ==
    /\ h \in lim.handles[t]
    /\ hname[h] # NoName
    /\ DeleteAs(t, "Close", h, hname[h])

\* ---- MemVFS.Delete
DeleteCall(t, name) ==
    /\ name \in lim.names
    /\ DeleteAs(t, "Delete", "", name)

\* Access under the store mutex
AccessBody(t, name) ==
    /\ vmu = NoThread
    /\ vmu' = t
    /\ cur' = [cur EXCEPT ![t] =
                  [IdleRec EXCEPT !.pc = "ret", !.op = "Access", !.name = name,
                      !.ok = Access(files, name), !.err = NoErr]]
    /\ UNCHANGED <<files, heap, hname, hlevel, hmu, crashed, gone, written, lim>>

\* ---- MemVFS.Access
AccessCall(t, name) ==
    /\ Idle(t, "Access")
    /\ name \in lim.names
    /\ AccessBody(t, name)

\* GetFile under the store mutex
GetFileBody(t, name) ==
    /\ vmu = NoThread
    /\ vmu' = t
    /\ LET r == GetFile(files, name)
       IN  Commit(files, heap,
                  [cur EXCEPT ![t] =
                      [IdleRec EXCEPT !.pc = "ret", !.op = "GetFile", !.name = name,
                          !.data = r.data, !.err = r.err]])
    /\ UNCHANGED <<hname, hlevel, hmu, crashed, gone, written, lim>>

\* ---- MemVFS.GetFile
GetFileCall(t, name) ==
    /\ Idle(t, "GetFile")
    /\ name \in lim.names
    /\ GetFileBody(t, name)

\* ---- MemFile.Lock (no mutex is taken); n is the level asked for and pre
\* the levels of the handles when the call began
LockCall(t, h, lockType) ==
    /\ Idle(t, "Lock")
    /\ h \in lim.handles[t]
    /\ hname[h] # NoName
    /\ hlevel' = [hlevel EXCEPT ![h] = Lock(@, lockType)]
    /\ cur' = [cur EXCEPT ![t] =
                  [IdleRec EXCEPT !.pc = "ret", !.op = "Lock", !.h = h,
                      !.name = hname[h], !.n = lockType, !.err = NoErr,
                      !.pre = hlevel]]
    /\ UNCHANGED <<files, heap, hname, hmu, vmu, crashed, gone, written, lim>>

\* ---- MemFile.Unlock (no mutex is taken)
UnlockCall(t, h, lockType) ==
    /\ Idle(t, "Unlock")
    /\ h \in lim.handles[t]
    /\ hname[h] # NoName
    /\ hlevel' = [hlevel EXCEPT ![h] = Unlock(@, lockType)]
    /\ cur' = [cur EXCEPT ![t] =
                  [IdleRec EXCEPT !.pc = "ret", !.op = "Unlock", !.h = h,
                      !.name = hname[h], !.n = lockType, !.err = NoErr,
                      !.pre = hlevel]]
    /\ UNCHANGED <<files, heap, hname, hmu, vmu, crashed, gone, written, lim>>

\* ---- MemFile.CheckReservedLock (no mutex is taken)
CheckReservedLockCall(t, h) ==
    /\ Idle(t, "CheckReservedLock")
    /\ h \in lim.handles[t]
    /\ hname[h] # NoName
    /\ cur' = [cur EXCEPT ![t] =
                  [IdleRec EXCEPT !.pc = "ret", !.op = "CheckReservedLock", !.h = h,
                      !.name = hname[h], !.ok = CheckReservedLock(hlevel[h]),
                      !.err = NoErr]]
    /\ UNCHANGED <<files, heap, hname, hlevel, hmu, vmu, crashed, gone, written, lim>>

\* a bug: a return path that leaves the store mutex locked
ReturnStoreLocked(t) ==
    /\ Alive
    /\ cur[t].pc \in {"ret", "unlock"}
    /\ vmu' = vmu
    /\ hmu' = [h \in Handles |-> IF hmu[h] = t THEN NoThread ELSE hmu[h]]
    /\ Commit(files, heap, [cur EXCEPT ![t] = IdleRec])
    /\ UNCHANGED <<hname, hlevel, crashed, gone, written, lim>>

\* goroutine t is at the return of a method that holds both mutexes: the
\* deferred v.mu.Unlock() runs first, the deferred f.mu.Unlock() after it
HoldsBoth(t) ==
    cur[t].pc = "ret" /\ vmu = t /\ \E h \in Handles : hmu[h] = t

\* ---- the return of any call: the deferred Unlocks run, one in a step, in
\* the reverse order of the defer statements (pc "unlock": v.mu is released
\* and f.mu still held); after the last one the locals go
Return(t) ==
    /\ Alive
    /\ cur[t].pc \in {"ret", "unlock"}
    /\ vmu' = IF vmu = t THEN NoThread ELSE vmu
    /\ hmu' = IF HoldsBoth(t) THEN hmu
              ELSE [h \in Handles |-> IF hmu[h] = t THEN NoThread ELSE hmu[h]]
    /\ Commit(files, heap,
              [cur EXCEPT ![t] =
                  IF HoldsBoth(t)
                  THEN [IdleRec EXCEPT !.pc = "unlock", !.op = cur[t].op,
                           !.h = cur[t].h, !.name = cur[t].name]
                  ELSE IdleRec])
    /\ UNCHANGED <<hname, hlevel, crashed, gone, written, lim>>

\* ---- a panic unwinds goroutine t: the deferred Unlocks run, one in a step
\* (v.mu.Unlock() first when v.mu is held), and then the runtime ends the
\* process
Unwind(t) ==
    /\ Alive
    /\ cur[t].pc = "panic"
    /\ vmu' = IF vmu = t THEN NoThread ELSE vmu
    /\ hmu' = IF vmu = t THEN hmu
              ELSE [h \in Handles |-> IF hmu[h] = t THEN NoThread ELSE hmu[h]]
    /\ Commit(files, heap,
              IF vmu = t \/ \E h \in Handles : hmu[h] = t
              THEN cur
              ELSE [cur EXCEPT ![t] = [IdleRec EXCEPT !.pc = "dead"]])
    /\ UNCHANGED <<hname, hlevel, crashed, gone, written, lim>>

AllOps ==
    {"Open", "ReadAt", "WriteAt", "Truncate", "FileSize", "Close", "Delete",
     "Access", "GetFile"}

Next ==
    \E t \in Threads :
        \/ \E h \in Handles, name \in Names : OpenCall(t, h, name)
        \/ \E h \in Handles : ReadAtLock(t, h)
        \/ \E k \in 0..lim.maxBuf, off \in ReadOffsets : ReadAtGetFile(t, k, off)
        \/ ReadAtCopy(t)
        \/ ReadAtDone(t)
        \/ \E h \in Handles : WriteAtLock(t, h)
        \/ \E p \in Payloads, off \in WriteOffsets : WriteAtBody(t, p, off)
        \/ WriteAtCopy(t)
        \/ WriteAtStore(t)
        \/ \E h \in Handles : TruncateLock(t, h)
        \/ \E size \in Sizes : TruncateBody(t, size)
        \/ \E h \in Handles : FileSizeLock(t, h)
        \/ FileSizeBody(t)
        \/ \E h \in Handles : CloseCall(t, h)
        \/ \E name \in Names : DeleteCall(t, name)
        \/ \E name \in Names : AccessCall(t, name)
        \/ \E name \in Names : GetFileCall(t, name)
        \/ Return(t)
        \/ Unwind(t)

\* one goroutine, one name: the methods called one after another
Init ==
    InitWith([threads |-> {"t1"}, names |-> {"a"}, bytes |-> {1, 2},
              handles |-> [t \in Threads |-> Handles],
              ops |-> [t \in Threads |-> AllOps],
              maxLen |-> MaxLen, maxBuf |-> MaxBuf, hist |-> TRUE,
              minOff |-> -1],
             [h \in Handles |-> NoName])
Spec == Init /\ [][Next]_vars

\* one goroutine, two names
InitNames ==
    InitWith([threads |-> {"t1"}, names |-> Names, bytes |-> {1},
              handles |-> [t \in Threads |-> Handles],
              ops |-> [t \in Threads |-> AllOps],
              maxLen |-> NamesMaxLen, maxBuf |-> NamesMaxBuf, hist |-> TRUE,
              minOff |-> -1],
             [h \in Handles |-> NoName])
SpecNames == InitNames /\ [][Next]_vars

\* two goroutines, each with its own handle, both opened on one name: the
\* first reads while the second writes and truncates
NextConc ==
    \E t \in Threads :
        \/ \E h \in Handles : ReadAtLock(t, h)
        \/ \E k \in 0..lim.maxBuf, off \in ReadOffsets : ReadAtGetFile(t, k, off)
        \/ ReadAtCopy(t)
        \/ ReadAtDone(t)
        \/ \E h \in Handles : WriteAtLock(t, h)
        \/ \E p \in Payloads, off \in WriteOffsets : WriteAtBody(t, p, off)
        \/ WriteAtCopy(t)
        \/ WriteAtStore(t)
        \/ \E h \in Handles : TruncateLock(t, h)
        \/ \E size \in Sizes : TruncateBody(t, size)
        \/ Return(t)
        \/ Unwind(t)

InitConc ==
    InitWith([threads |-> Threads, names |-> {"a"}, bytes |-> {1},
              handles |-> [t \in Threads |-> IF t = "t1" THEN {"h1"} ELSE {"h2"}],
              ops |-> [t \in Threads |->
                          IF t = "t1" THEN {"ReadAt"} ELSE {"WriteAt", "Truncate"}],
              maxLen |-> ConcMaxLen, maxBuf |-> ConcMaxBuf, hist |-> TRUE,
              minOff |-> -1],
             [h \in Handles |-> "a"])
SpecConc == InitConc /\ [][NextConc]_vars

\* ---- the return of a call whose caller keeps what it passed and what it
\* got back and makes no further call; the deferred Unlocks as in Return
Finish(t) ==
    /\ Alive
    /\ cur[t].pc \in {"ret", "unlock"}
    /\ vmu' = IF vmu = t THEN NoThread ELSE vmu
    /\ hmu' = IF HoldsBoth(t) THEN hmu
              ELSE [h \in Handles |-> IF hmu[h] = t THEN NoThread ELSE hmu[h]]
    /\ Commit(files, heap,
              [cur EXCEPT ![t].pc = IF HoldsBoth(t) THEN "unlock" ELSE "done",
                          ![t].data = NilSlice, ![t].pre = << >>])
    /\ UNCHANGED <<hname, hlevel, crashed, gone, written, lim>>

\* two goroutines, each with its own handle on one name, each calling WriteAt
\* once, at offset 0 or at the offset that is the length of its payload
NextWriters ==
    \E t \in Threads :
        \/ \E h \in Handles : WriteAtLock(t, h)
        \/ \E p \in Payloads : \E off \in {I64(0), I64(Len(p))} : WriteAtBody(t, p, off)
        \/ WriteAtCopy(t)
        \/ WriteAtStore(t)
        \/ Finish(t)

\* the file before the two writes: absent, or a slice of n bytes of an array
\* of k >= n bytes (what a WriteAt of k bytes and a Truncate(n) leave)
InitWriters ==
    \E k \in 0..WritersMaxOld, n \in 0..WritersMaxOld, present \in BOOLEAN :
        /\ n <= k
        /\ present \/ k = 0
        /\ InitFrom([threads |-> Threads, names |-> {"a"}, bytes |-> {1, 2},
                     handles |-> [t \in Threads |-> IF t = "t1" THEN {"h1"} ELSE {"h2"}],
                     ops |-> [t \in Threads |-> {"WriteAt"}],
                     maxLen |-> WritersMaxLen, maxBuf |-> WritersMaxBuf, hist |-> TRUE,
              minOff |-> -1],
                    [h \in Handles |-> "a"],
                    [m \in (IF present THEN {"a"} ELSE {}) |->
                        IF k = 0 THEN NilSlice ELSE [arr |-> 1, len |-> n]],
                    [a \in ArrIds |-> IF a = 1 THEN [i \in 1..k |-> 3] ELSE << >>])
SpecWriters == InitWriters /\ [][NextWriters]_vars

\* one goroutine and two handles: the lock calls among Open, Close, Truncate
\* and FileSize
NextLocks ==
    \E t \in Threads :
        \/ \E h \in Handles, name \in Names : OpenCall(t, h, name)
        \/ \E h \in Handles, lockType \in LockTypes : LockCall(t, h, lockType)
        \/ \E h \in Handles, lockType \in LockTypes : UnlockCall(t, h, lockType)
        \/ \E h \in Handles : CheckReservedLockCall(t, h)
        \/ \E h \in Handles : TruncateLock(t, h)
        \/ \E size \in Sizes : TruncateBody(t, size)
        \/ \E h \in Handles : FileSizeLock(t, h)
        \/ FileSizeBody(t)
        \/ \E h \in Handles : CloseCall(t, h)
        \/ Return(t)
        \/ Unwind(t)

InitLocks ==
    InitWith([threads |-> {"t1"}, names |-> {"a"}, bytes |-> {1},
              handles |-> [t \in Threads |-> Handles],
              ops |-> [t \in Threads |->
                          {"Open", "Lock", "Unlock", "CheckReservedLock", "Truncate",
                           "FileSize", "Close"}],
              maxLen |-> LocksMaxLen, maxBuf |-> 0, hist |-> TRUE,
              minOff |-> -1],
             [h \in Handles |-> NoName])
SpecLocks == InitLocks /\ [][NextLocks]_vars

(***************************************************************************)
(* Calls that can be kept waiting.  A goroutine that has entered a method  *)
(* stands at the method's first Lock() (pc "call") until the mutex is      *)
(* free: f.mu for ReadAt, WriteAt, Truncate and FileSize, v.mu for Close,  *)
(* Delete, Access and GetFile.  With f.mu held it stands at v.mu.Lock()    *)
(* (pc "locked").                                                          *)
(***************************************************************************)
HandleOps == {"ReadAt", "WriteAt", "Truncate", "FileSize"}

\* ---- a goroutine enters a method
Call(t, op, h, name) ==
    /\ Idle(t, op)
    /\ IF op \in HandleOps \cup {"Close"}
       THEN h \in lim.handles[t] /\ hname[h] # NoName /\ name = hname[h]
       ELSE h = "" /\ name \in lim.names
    /\ cur' = [cur EXCEPT ![t] =
                  [IdleRec EXCEPT !.pc = "call", !.op = op, !.h = h, !.name = name]]
    /\ UNCHANGED <<files, heap, hname, hlevel, hmu, vmu, crashed, gone, written, lim>>

\* ---- the first Lock() of the method returns
Enter(t) ==
    /\ Alive
    /\ cur[t].pc = "call"
    /\ \/ cur[t].op \in HandleOps /\ AcquireHandle(t, cur[t].h, cur[t].op)
       \/ cur[t].op \in {"Close", "Delete"}
             /\ DeleteBody(t, cur[t].op, cur[t].h, cur[t].name)
       \/ cur[t].op = "Access" /\ AccessBody(t, cur[t].name)
       \/ cur[t].op = "GetFile" /\ GetFileBody(t, cur[t].name)

\* the steps of t that wait for a mutex
Acquire(t) ==
    \/ Enter(t)
    \/ \E k \in 0..lim.maxBuf, off \in ReadOffsets : ReadAtGetFile(t, k, off)
    \/ \E p \in Payloads, off \in WriteOffsets : WriteAtBody(t, p, off)
    \/ \E size \in Sizes : TruncateBody(t, size)
    \/ FileSizeBody(t)

\* the steps of t that wait for nothing
Run(t) ==
    \/ ReadAtCopy(t)
    \/ ReadAtDone(t)
    \/ WriteAtCopy(t)
    \/ WriteAtStore(t)
    \/ Return(t)
    \/ Unwind(t)

NextLive ==
    \E t \in Threads :
        \/ \E op \in AllOps, h \in Handles \cup {""}, name \in Names : Call(t, op, h, name)
        \/ Acquire(t)
        \/ Run(t)

\* two goroutines and two handles on one name, either goroutine using either
\* handle
InitLive ==
    InitWith([threads |-> Threads, names |-> {"a"}, bytes |-> {1},
              handles |-> [t \in Threads |-> Handles],
              ops |-> [t \in Threads |-> AllOps \ {"Open"}],
              maxLen |-> LiveMaxLen, maxBuf |-> LiveMaxBuf, hist |-> FALSE,
              minOff |-> -1],
             [h \in Handles |-> "a"])

\* every interleaving of the calls
SpecAll == InitLive /\ [][NextLive]_vars

\* two goroutines and two handles on one name, the first goroutine using
\* the first handle and the second using either; ReadAt and Truncate are
\* called with offsets and sizes from 0 on (WriteAt with every offset of
\* WriteOffsets, the one that panics included)
InitFair ==
    InitWith([threads |-> Threads, names |-> {"a"}, bytes |-> {1},
              handles |-> [t \in Threads |-> IF t = "t1" THEN {"h1"} ELSE Handles],
              ops |-> [t \in Threads |-> AllOps \ {"Open"}],
              maxLen |-> LiveMaxLen, maxBuf |-> LiveMaxBuf, hist |-> FALSE,
              minOff |-> 0],
             [h \in Handles |-> "a"])

\* fair scheduling: a goroutine that can run does run, and a goroutine
\* waiting in Lock() gets the mutex if it keeps being released (sync.Mutex
\* hands the mutex to a waiter that has been starved)
SpecLive ==
    /\ InitFair
    /\ [][NextLive]_vars
    /\ \A t \in Threads : WF_vars(Run(t)) /\ SF_vars(Acquire(t))

\* two goroutines, the first with a handle on "a" and the second with a
\* handle on "b"; either may delete either name
NextIso ==
    \E t \in Threads :
        \/ \E h \in Handles : ReadAtLock(t, h)
        \/ \E k \in 0..lim.maxBuf, off \in ReadOffsets : ReadAtGetFile(t, k, off)
        \/ ReadAtCopy(t)
        \/ ReadAtDone(t)
        \/ \E h \in Handles : WriteAtLock(t, h)
        \/ \E p \in Payloads, off \in WriteOffsets : WriteAtBody(t, p, off)
        \/ WriteAtCopy(t)
        \/ WriteAtStore(t)
        \/ \E h \in Handles : TruncateLock(t, h)
        \/ \E size \in Sizes : TruncateBody(t, size)
        \/ \E h \in Handles : FileSizeLock(t, h)
        \/ FileSizeBody(t)
        \/ \E h \in Handles : CloseCall(t, h)
        \/ \E name \in Names : DeleteCall(t, name)
        \/ Return(t)
        \/ Unwind(t)

InitIso ==
    InitWith([threads |-> Threads, names |-> Names, bytes |-> {1},
              handles |-> [t \in Threads |-> IF t = "t1" THEN {"h1"} ELSE {"h2"}],
              ops |-> [t \in Threads |->
                          {"ReadAt", "WriteAt", "Truncate", "FileSize", "Close",
                           "Delete"}],
              maxLen |-> IsoMaxLen, maxBuf |-> IsoMaxBuf, hist |-> FALSE,
              minOff |-> -1],
             [h \in Handles |-> IF h = "h1" THEN "a" ELSE "b"])
SpecIso == InitIso /\ [][NextIso]_vars

\* ---- GetFile returns and the caller keeps the slice it got: data is the
\* slice, pre (history) the bytes it showed when GetFile returned
Keep(t) ==
    /\ Alive
    /\ cur[t].pc = "ret"
    /\ cur[t].op = "GetFile"
    /\ cur[t].err = NoErr
    /\ vmu' = IF vmu = t THEN NoThread ELSE vmu
    /\ hmu' = [h \in Handles |-> IF hmu[h] = t THEN NoThread ELSE hmu[h]]
    /\ Commit(files, heap,
              [cur EXCEPT ![t].pc = "kept", ![t].pre = View(heap, cur[t].data)])
    /\ UNCHANGED <<hname, hlevel, crashed, gone, written, lim>>

\* the first goroutine calls GetFile and keeps the result; the second
\* writes, truncates, closes and deletes through a handle on the name
NextSnap ==
    \E t \in Threads :
        \/ \E name \in Names : GetFileCall(t, name)
        \/ Keep(t)
        \/ \E h \in Handles : WriteAtLock(t, h)
        \/ \E p \in Payloads, off \in WriteOffsets : WriteAtBody(t, p, off)
        \/ WriteAtCopy(t)
        \/ WriteAtStore(t)
        \/ \E h \in Handles : TruncateLock(t, h)
        \/ \E size \in Sizes : TruncateBody(t, size)
        \/ \E h \in Handles : CloseCall(t, h)
        \/ \E name \in Names : DeleteCall(t, name)
        \/ Return(t)
        \/ Unwind(t)

InitSnap ==
    InitWith([threads |-> Threads, names |-> {"a"}, bytes |-> {1, 2},
              handles |-> [t \in Threads |-> IF t = "t1" THEN {} ELSE {"h2"}],
              ops |-> [t \in Threads |->
                          IF t = "t1" THEN {"GetFile"}
                          ELSE {"WriteAt", "Truncate", "Close", "Delete"}],
              maxLen |-> SnapMaxLen, maxBuf |-> SnapMaxBuf, hist |-> TRUE,
              minOff |-> -1],
             [h \in Handles |-> "a"])
SpecSnap == InitSnap /\ [][NextSnap]_vars

(***************************************************************************)
(* The claims.  A call is looked at when its body is done (pc "ret").       *)
(***************************************************************************)
\* goroutine t has finished the body of op and is about to return
AtRet(t, op) == cur[t].pc = "ret" /\ cur[t].op = op

\* a ReadAt of k bytes at offset o through a handle on name, in this state
ReadNow(name, k, o) ==
    ReadAt(View(heap, getFile(files, name).data), FreshBuf(k), I64(o))

(***************************************************************************)
(* C1.  Per-name atomicity: a ReadAt through one handle, running while     *)
(* another goroutine does one WriteAt or Truncate through another handle   *)
(* on the same name, returns the bytes of the contents before that call or *)
(* of the contents after it, never a mix.  (Reads that overlap two or more *)
(* changes are left out.)  The code violates it: ReadAt copies from the    *)
(* backing array after getFile released the store mutex, and the two       *)
(* handles have two different f.mu.                                        *)
(***************************************************************************)
C1_ReadSeesNoPartialWrite ==
    \A t \in Threads :
        (AtRet(t, "ReadAt") /\ cur[t].over <= 1) =>
            \E c \in cur[t].seen :
                cur[t].p = RefRead(c, Len(cur[t].p), I64ToInt(cur[t].off))

(***************************************************************************)
(* C2.  ReadAt against a reference: with the file's size S, a buffer of    *)
(* length L and offset off >= 0, the call returns (no panic), the buffer   *)
(* holds bytes [off, off+L) and the status is nil when off+L <= S;         *)
(* otherwise it holds bytes [off, S)                                       *)
(* followed by zeros over the whole rest, with ShortRead.  The count is L. *)
(***************************************************************************)
C2_ReadAtMatchesReference ==
    \A t \in Threads :
        (/\ cur[t].op = "ReadAt"
         /\ cur[t].pc \in {"ret", "panic"}
         /\ ~I64Neg(cur[t].off)) =>
            LET c == Contents(files, heap, cur[t].name)
                L == Len(cur[t].p)
                o == I64ToInt(cur[t].off)
                S == Len(c)
            IN  /\ cur[t].pc = "ret"
                /\ cur[t].n = L
                /\ IF o + L <= S
                   THEN /\ cur[t].p = SubSeq(c, o + 1, o + L)
                        /\ cur[t].err = NoErr
                   ELSE /\ cur[t].p = SubSeq(c, o + 1, S) \o Make(L - Max2(S - o, 0))
                        /\ cur[t].err = ShortRead

(***************************************************************************)
(* C2 as amended: the status is nil exactly when off < S and off+L <= S;   *)
(* in every other case, a zero-length read at off = S included, the buffer *)
(* holds bytes [off, S) followed by zeros and the status is ShortRead.     *)
(***************************************************************************)
C2_ReadAtAmended ==
    \A t \in Threads :
        (/\ cur[t].op = "ReadAt"
         /\ cur[t].pc \in {"ret", "panic"}
         /\ ~I64Neg(cur[t].off)) =>
            LET c == Contents(files, heap, cur[t].name)
                L == Len(cur[t].p)
                o == I64ToInt(cur[t].off)
                S == Len(c)
            IN  /\ cur[t].pc = "ret"
                /\ cur[t].n = L
                /\ IF o < S /\ o + L <= S
                   THEN /\ cur[t].p = SubSeq(c, o + 1, o + L)
                        /\ cur[t].err = NoErr
                   ELSE /\ cur[t].p = SubSeq(c, o + 1, S) \o Make(L - Max2(S - o, 0))
                        /\ cur[t].err = ShortRead

\* a short read that returned a written byte and then a zero
C2_Witness ==
    \E t \in Threads :
        /\ AtRet(t, "ReadAt")
        /\ cur[t].err = ShortRead
        /\ Len(cur[t].p) = 2
        /\ cur[t].p[1] # 0
        /\ cur[t].p[2] = 0
        /\ Len(Contents(files, heap, cur[t].name)) = I64ToInt(cur[t].off) + 1

(***************************************************************************)
(* C3.  Sparse write: WriteAt(off, p) with off > S (the size before)       *)
(* succeeds, makes the size off+len(p), keeps bytes [0,S), zeroes the gap  *)
(* [S, off) and places p at [off, off+len(p)); a ReadAt of the whole file  *)
(* then returns exactly that with no ShortRead.                            *)
(***************************************************************************)
C3_SparseWrite ==
    \A t \in Threads :
        (/\ cur[t].op = "WriteAt"
         /\ cur[t].pc \in {"ret", "panic", "w_copy"}
         /\ ~I64Neg(cur[t].off) /\ I64Small(cur[t].off)
         /\ I64ToInt(cur[t].off) > Len(Old(cur[t].pre, cur[t].name))) =>
            LET old == Old(cur[t].pre, cur[t].name)
                S   == Len(old)
                o   == I64ToInt(cur[t].off)
                b   == cur[t].p
                c   == Contents(files, heap, cur[t].name)
            IN  /\ cur[t].pc = "ret"
                /\ cur[t].err = NoErr
                /\ cur[t].n = Len(b)
                /\ FileSize(files, cur[t].name) = o + Len(b)
                /\ Len(c) = o + Len(b)
                /\ SubSeq(c, 1, S) = old
                /\ \A i \in (S + 1)..o : c[i] = 0
                /\ SubSeq(c, o + 1, o + Len(b)) = b
                /\ ReadNow(cur[t].name, Len(c), 0) =
                       [p |-> c, n |-> Len(c), err |-> NoErr]

\* a write past the end of a non-empty file: old byte, zero gap, new byte
C3_Witness ==
    \E t \in Threads :
        /\ AtRet(t, "WriteAt")
        /\ cur[t].err = NoErr
        /\ Len(Old(cur[t].pre, cur[t].name)) = 1
        /\ Old(cur[t].pre, cur[t].name)[1] # 0
        /\ cur[t].off = I64(2)
        /\ Len(cur[t].p) = 1
        /\ Len(Contents(files, heap, cur[t].name)) = 3

(***************************************************************************)
(* C4.  Write/read round trip: for an offset o >= 0 (below, at or beyond   *)
(* the size) whose o+len(b) is representable, WriteAt(o, b) succeeds; a    *)
(* ReadAt(o, len(b)) right after it returns b with no ShortRead; the bytes *)
(* that existed outside [o, o+len(b)) are unchanged; the size is           *)
(* max(old size, o+len(b)).                                                *)
(***************************************************************************)
C4_WriteReadRoundTrip ==
    \A t \in Threads :
        (/\ cur[t].op = "WriteAt"
         /\ cur[t].pc \in {"ret", "panic"}
         /\ ~I64Neg(cur[t].off) /\ I64Small(cur[t].off)) =>
            LET old == Old(cur[t].pre, cur[t].name)
                o   == I64ToInt(cur[t].off)
                b   == cur[t].p
                c   == Contents(files, heap, cur[t].name)
            IN  /\ cur[t].pc = "ret"
                /\ cur[t].err = NoErr
                /\ cur[t].n = Len(b)
                /\ ReadNow(cur[t].name, Len(b), o) =
                       [p |-> b, n |-> Len(b), err |-> NoErr]
                /\ Len(c) = Max2(Len(old), o + Len(b))
                /\ FileSize(files, cur[t].name) = Max2(Len(old), o + Len(b))
                /\ \A i \in 1..Len(old) :
                       (i <= o \/ i > o + Len(b)) => c[i] = old[i]

(***************************************************************************)
(* C4 as amended: as C4, but the read after the write is free of ShortRead *)
(* only when b is not empty: a zero-length WriteAt(o, b) followed by the   *)
(* zero-length ReadAt(o, 0) returns the empty b with ShortRead when o is   *)
(* at the end of the file (o at or beyond the old size).                   *)
(***************************************************************************)
C4_RoundTripAmended ==
    \A t \in Threads :
        (/\ cur[t].op = "WriteAt"
         /\ cur[t].pc \in {"ret", "panic"}
         /\ ~I64Neg(cur[t].off) /\ I64Small(cur[t].off)) =>
            LET old == Old(cur[t].pre, cur[t].name)
                o   == I64ToInt(cur[t].off)
                b   == cur[t].p
                c   == Contents(files, heap, cur[t].name)
            IN  /\ cur[t].pc = "ret"
                /\ cur[t].err = NoErr
                /\ cur[t].n = Len(b)
                /\ ReadNow(cur[t].name, Len(b), o) =
                       [p |-> b, n |-> Len(b),
                        err |-> IF Len(b) = 0 /\ o >= Len(old)
                                THEN ShortRead ELSE NoErr]
                /\ Len(c) = Max2(Len(old), o + Len(b))
                /\ FileSize(files, cur[t].name) = Max2(Len(old), o + Len(b))
                /\ \A i \in 1..Len(old) :
                       (i <= o \/ i > o + Len(b)) => c[i] = old[i]

\* an overwrite inside the file that changed a byte and kept its neighbours
C4_Witness ==
    \E t \in Threads :
        /\ AtRet(t, "WriteAt")
        /\ cur[t].err = NoErr
        /\ Len(Old(cur[t].pre, cur[t].name)) = 3
        /\ cur[t].off = I64(1)
        /\ Len(cur[t].p) = 1
        /\ cur[t].p[1] # Old(cur[t].pre, cur[t].name)[2]
        /\ Old(cur[t].pre, cur[t].name)[1] # 0
        /\ Old(cur[t].pre, cur[t].name)[3] # 0

(***************************************************************************)
(* C5.  Truncate: Truncate(k), k >= 0 (and of a size that can be           *)
(* allocated), returns, and after it FileSize through every handle         *)
(* on the name is k, whatever the size before (a name with no buffer       *)
(* included); bytes [0, min(k, old size)) keep their values, bytes         *)
(* [old size, k) are zero, and k equal to the old size changes nothing.    *)
(***************************************************************************)
C5_Truncate ==
    \A t \in Threads :
        (/\ cur[t].op = "Truncate"
         /\ cur[t].pc \in {"ret", "panic"}
         /\ ~I64Neg(cur[t].off) /\ I64Small(cur[t].off)) =>
            LET old == Old(cur[t].pre, cur[t].name)
                k   == I64ToInt(cur[t].off)
                c   == Contents(files, heap, cur[t].name)
            IN  /\ cur[t].pc = "ret"
                /\ cur[t].err = NoErr
                /\ \A g \in Handles :
                       hname[g] = cur[t].name => FileSize(files, hname[g]) = k
                /\ Len(c) = k
                /\ \A i \in 1..Min2(k, Len(old)) : c[i] = old[i]
                /\ \A i \in (Len(old) + 1)..k : c[i] = 0
                /\ (k = Len(old) => Store(files, heap) = cur[t].pre)

\* a file with a written byte cut by one byte, seen through a second handle
C5_Witness ==
    \E t \in Threads :
        /\ AtRet(t, "Truncate")
        /\ Len(Old(cur[t].pre, cur[t].name)) = 2
        /\ Old(cur[t].pre, cur[t].name)[2] # 0
        /\ cur[t].off = I64(1)
        /\ \E g \in Handles : g # cur[t].h /\ hname[g] = cur[t].name

(***************************************************************************)
(* C6.  Existence lifecycle: Access(n) is false before any open or write   *)
(* of n, true right after Open(n) returns, and false again right after     *)
(* Delete(n), whatever happens to other names.  The code violates the      *)
(* middle part: Open only builds the MemFile and never touches the map.    *)
(***************************************************************************)
C6_ExistenceLifecycle ==
    /\ \A name \in Names :
           (\A h \in Handles : hname[h] # name) => ~Access(files, name)
    /\ \A t \in Threads : AtRet(t, "Open") => Access(files, cur[t].name)
    /\ \A t \in Threads : AtRet(t, "Delete") => ~Access(files, cur[t].name)

(***************************************************************************)
(* C7.  Close removes the buffer: when Close on a handle bound to n        *)
(* returns, n is not in the namespace: Access(n) is false and GetFile(n)   *)
(* is not-found, whatever n held and with other handles on n still open.   *)
(***************************************************************************)
C7_CloseRemovesBuffer ==
    \A t \in Threads :
        AtRet(t, "Close") =>
            /\ cur[t].err = NoErr
            /\ cur[t].name = hname[cur[t].h]
            /\ ~Access(files, cur[t].name)
            /\ GetFile(files, cur[t].name) = [data |-> NilSlice, err |-> ErrNotFound]

\* Close of a file that held bytes, a second handle on the name still open
C7_Witness ==
    \E t \in Threads :
        /\ AtRet(t, "Close")
        /\ Len(Old(cur[t].pre, cur[t].name)) >= 2
        /\ \E g \in Handles : g # cur[t].h /\ hname[g] = cur[t].name

(***************************************************************************)
(* C8.  No existence after deletion: once Delete(n) or a Close of a handle *)
(* on n is done, Access(n) is false as long as no Open, WriteAt or         *)
(* Truncate on n follows, even if a handle on n does ReadAt or FileSize.   *)
(* The code violates it: ReadAt calls getFile, which puts n back.          *)
(***************************************************************************)
C8_NoExistenceAfterDelete ==
    \A name \in gone : ~Access(files, name)

(***************************************************************************)
(* C9.  Delete is idempotent: it returns no error whether or not the name  *)
(* exists; deleting an absent name leaves the whole store unchanged, and a *)
(* second Delete(n) leaves the store as the first left it.                 *)
(***************************************************************************)
C9_DeleteIdempotent ==
    \A t \in Threads :
        AtRet(t, "Delete") =>
            /\ cur[t].err = NoErr
            /\ (cur[t].name \notin DOMAIN cur[t].pre =>
                    Store(files, heap) = cur[t].pre)
            /\ Delete(files, cur[t].name) = files
            /\ Store(Delete(files, cur[t].name), heap) = Store(files, heap)

\* Delete of an absent name while the other name holds a byte
C9_Witness ==
    \E t \in Threads :
        /\ AtRet(t, "Delete")
        /\ cur[t].name \notin DOMAIN cur[t].pre
        /\ \E m \in DOMAIN files : Len(Contents(files, heap, m)) > 0

(***************************************************************************)
(* C10.  Shared buffer: two handles opened on one name address one buffer. *)
(* When a WriteAt, Truncate or Close through one handle has been done, a   *)
(* FileSize or ReadAt through the other handle gives the new size and the  *)
(* new contents.                                                           *)
(***************************************************************************)
C10_SharedBuffer ==
    \A t \in Threads :
        (/\ cur[t].pc = "ret"
         /\ cur[t].op \in {"WriteAt", "Truncate", "Close"}
         /\ cur[t].err = NoErr) =>
            LET old == Old(cur[t].pre, cur[t].name)
                new == CASE cur[t].op = "WriteAt" ->
                                RefWrite(old, I64ToInt(cur[t].off), cur[t].p)
                         [] cur[t].op = "Truncate" ->
                                RefTruncate(old, I64ToInt(cur[t].off))
                         [] OTHER -> << >>
            IN  \A g \in Handles :
                    (g # cur[t].h /\ hname[g] = cur[t].name) =>
                        /\ FileSize(files, hname[g]) = Len(new)
                        /\ \A k \in 0..(Len(new) + 1) :
                               ReadNow(hname[g], k, 0).p = RefRead(new, k, 0)

\* a write through one handle that changed size and bytes, a second handle
\* open on the same name
C10_Witness ==
    \E t \in Threads :
        /\ AtRet(t, "WriteAt")
        /\ cur[t].err = NoErr
        /\ Len(cur[t].p) = 2
        /\ Len(Old(cur[t].pre, cur[t].name)) = 1
        /\ \E g \in Handles : g # cur[t].h /\ hname[g] = cur[t].name

(***************************************************************************)
(* C11.  Concurrent disjoint writers: two goroutines, through two handles  *)
(* on one name, call WriteAt with payloads of length L, one at offset 0    *)
(* and one at offset L, from any state of the file (absent and empty       *)
(* included).  When both calls have returned the size is at least 2L and   *)
(* ReadAt(0, 2L) returns the first payload followed by the second, in      *)
(* every interleaving.                                                     *)
(***************************************************************************)
C11_DisjointWriters ==
    \A u \in Threads, w \in Threads :
        (/\ u # w
         /\ cur[u].pc = "done" /\ cur[w].pc = "done"
         /\ cur[u].h # cur[w].h
         /\ cur[u].off = I64(0)
         /\ Len(cur[u].p) = Len(cur[w].p)
         /\ cur[w].off = I64(Len(cur[u].p))) =>
            /\ cur[u].err = NoErr /\ cur[w].err = NoErr
            /\ cur[u].n = Len(cur[u].p) /\ cur[w].n = Len(cur[w].p)
            /\ FileSize(files, "a") >= 2 * Len(cur[u].p)
            /\ ReadNow("a", 2 * Len(cur[u].p), 0).p = cur[u].p \o cur[w].p

\* both writes of two bytes have returned and the file holds the two payloads
C11_Witness ==
    /\ cur["t1"].pc = "done" /\ cur["t2"].pc = "done"
    /\ cur["t1"].off = I64(0) /\ cur["t1"].p = <<1, 2>>
    /\ cur["t2"].off = I64(2) /\ cur["t2"].p = <<2, 1>>
    /\ Contents(files, heap, "a") = <<1, 2, 2, 1>>

(***************************************************************************)
(* C12.  Lock(l) sets the handle's level to max(level, l) and never lowers *)
(* it; it returns nil and is never kept waiting, whatever the levels of    *)
(* the handles are (two handles on one name can both be at Exclusive); it  *)
(* leaves the other handle's level alone.                                  *)
(***************************************************************************)
C12_LockRaises ==
    /\ \A t \in Threads :
           AtRet(t, "Lock") =>
               /\ hlevel[cur[t].h] = Max2(cur[t].pre[cur[t].h], cur[t].n)
               /\ hlevel[cur[t].h] >= cur[t].pre[cur[t].h]
               /\ cur[t].err = NoErr
               /\ \A g \in Handles \ {cur[t].h} : hlevel[g] = cur[t].pre[g]
    /\ \A t \in lim.threads, h \in Handles, l \in LockTypes :
           (Alive /\ cur[t].pc = "idle" /\ hname[h] # NoName) =>
               ENABLED LockCall(t, h, l)

\* Lock(Shared) on a handle at Exclusive, the other handle on the same name
\* at Exclusive too: the level stays Exclusive
C12_Witness ==
    \E t \in Threads :
        /\ AtRet(t, "Lock")
        /\ cur[t].n = LockShared
        /\ cur[t].pre[cur[t].h] = LockExclusive
        /\ \A g \in Handles : hname[g] = cur[t].name /\ hlevel[g] = LockExclusive

(***************************************************************************)
(* C13.  Unlock(l) sets the handle's level to exactly l, lowering it when  *)
(* it was higher: after Lock(Shared), Lock(Exclusive), Unlock(Shared) the  *)
(* level is Shared and CheckReservedLock returns false.                    *)
(***************************************************************************)
C13_UnlockSets ==
    \A t \in Threads :
        AtRet(t, "Unlock") =>
            /\ hlevel[cur[t].h] = cur[t].n
            /\ cur[t].err = NoErr
            /\ CheckReservedLock(hlevel[cur[t].h]) = (cur[t].n >= LockReserved)
            /\ (cur[t].n = LockShared) => ~CheckReservedLock(hlevel[cur[t].h])

\* Unlock(Shared) on a handle that was at Exclusive
C13_Witness ==
    \E t \in Threads :
        /\ AtRet(t, "Unlock")
        /\ cur[t].n = LockShared
        /\ cur[t].pre[cur[t].h] = LockExclusive
        /\ hlevel[cur[t].h] = LockShared

(***************************************************************************)
(* C14.  CheckReservedLock on a handle returns true exactly when that      *)
(* handle's own level is at least Reserved; and a handle's level changes   *)
(* only in a step that is a Lock or an Unlock call on that handle, never   *)
(* in a step of a call on another handle or of Open, Close or I/O.         *)
(***************************************************************************)
C14_OwnLevelOnly ==
    /\ [](\A t \in Threads :
             AtRet(t, "CheckReservedLock") =>
                 (cur[t].ok <=> hlevel[cur[t].h] >= LockReserved))
    /\ [][\A h \in Handles :
             hlevel'[h] # hlevel[h] =>
                 \E t \in Threads :
                     /\ cur[t].pc = "idle"
                     /\ cur'[t].pc = "ret"
                     /\ cur'[t].op \in {"Lock", "Unlock"}
                     /\ cur'[t].h = h]_vars

\* CheckReservedLock returns false on a handle below Reserved while the
\* other handle on the same name is at Exclusive
C14_Witness ==
    \E t \in Threads :
        /\ AtRet(t, "CheckReservedLock")
        /\ ~cur[t].ok
        /\ hlevel[cur[t].h] = LockShared
        /\ \E g \in Handles \ {cur[t].h} :
               hname[g] = cur[t].name /\ hlevel[g] = LockExclusive

(***************************************************************************)
(* C15.  GetFile(n) returns the not-found error exactly when n has no      *)
(* entry in the map; for a name whose buffer exists with length zero it    *)
(* succeeds with an empty byte sequence; whenever it succeeds the bytes    *)
(* returned are the contents at that moment, as long as FileSize says.     *)
(***************************************************************************)
C15_GetFileNotFound ==
    \A t \in Threads :
        AtRet(t, "GetFile") =>
            /\ (cur[t].err = ErrNotFound) <=> (cur[t].name \notin DOMAIN files)
            /\ cur[t].err \in {ErrNotFound, NoErr}
            /\ (cur[t].err = NoErr) =>
                   /\ View(heap, cur[t].data) = Contents(files, heap, cur[t].name)
                   /\ Len(View(heap, cur[t].data)) = FileSize(files, cur[t].name)

\* GetFile succeeds with no bytes on a name that is in the map with length 0
C15_Witness ==
    \E t \in Threads :
        /\ AtRet(t, "GetFile")
        /\ cur[t].name \in DOMAIN files
        /\ FileSize(files, cur[t].name) = 0
        /\ cur[t].err = NoErr
        /\ View(heap, cur[t].data) = << >>

(***************************************************************************)
(* C16.  An overflowing write is rejected as a whole: WriteAt(off, p) with *)
(* off + len(p) negative, as computed on int64 (a sum that overflows wraps *)
(* to a negative one), returns an error and 0, writes nothing and leaves   *)
(* the map and every file's contents as they were; the name is not created.*)
(***************************************************************************)
C16_OverflowRejected ==
    \A t \in Threads :
        (/\ cur[t].op = "WriteAt"
         /\ cur[t].pc \in {"ret", "panic", "w_copy"}
         /\ I64Neg(I64Add(cur[t].off, I64(Len(cur[t].p))))) =>
            /\ cur[t].pc = "ret"
            /\ cur[t].err = ErrNegative
            /\ cur[t].n = 0
            /\ Store(files, heap) = cur[t].pre
            /\ DOMAIN files = DOMAIN cur[t].pre

\* a write of two bytes at the largest offset, on a name that is not in the
\* map: the sum wraps, the call returns the error, the name is still absent
C16_Witness ==
    \E t \in Threads :
        /\ AtRet(t, "WriteAt")
        /\ cur[t].off = MaxInt64
        /\ Len(cur[t].p) = 2
        /\ cur[t].err = ErrNegative
        /\ cur[t].name \notin DOMAIN files

(***************************************************************************)
(* C17.  No operation blocks indefinitely: in every interleaving of        *)
(* ReadAt, WriteAt, Truncate, FileSize, Close, Delete, Access and GetFile  *)
(* calls of concurrent goroutines, on the same or different handles, every *)
(* call that was entered returns under fair scheduling: no goroutine waits *)
(* for ever for a handle mutex or for the store mutex.  (A call that       *)
(* panics releases its mutexes while it unwinds and then ends the process; *)
(* the calls in progress then end with the process, none having waited for *)
(* ever while it ran.)                                                     *)
(***************************************************************************)
C17_EveryCallReturns ==
    \A t \in Threads :
        (cur[t].pc # "idle") ~> (cur[t].pc = "idle" \/ ~Alive)

\* a goroutine waits for a handle mutex whose holder is in the middle of
\* WriteAt's copy, with the store mutex held too
C17_Witness ==
    \E t \in Threads, u \in Threads :
        /\ t # u
        /\ cur[t].pc = "call"
        /\ cur[t].op \in HandleOps
        /\ hmu[cur[t].h] = u
        /\ vmu = u
        /\ cur[u].pc = "w_copy"

(***************************************************************************)
(* C18.  Close versus a surviving handle: once a handle on name n has been *)
(* closed, in any interleaving with the calls of the other handle, a call  *)
(* that looks n up after the Close (and before any later WriteAt or        *)
(* Truncate took effect on n) behaves as on a fresh empty file: FileSize   *)
(* returns 0, ReadAt returns zeros with ShortRead, WriteAt(off, p) leaves  *)
(* a file of off+len(p) bytes, zeros in [0, off) and then p.  No byte of   *)
(* the contents before the Close is seen again.                            *)
(***************************************************************************)
C18_FreshAfterClose ==
    \A t \in Threads :
        cur[t].fresh =>
            /\ AtRet(t, "FileSize") => cur[t].n = 0 /\ cur[t].err = NoErr
            /\ (/\ cur[t].op = "ReadAt"
                /\ cur[t].pc \in {"ret", "panic"}
                /\ ~I64Neg(cur[t].off)) =>
                   /\ cur[t].pc = "ret"
                   /\ cur[t].p = Make(Len(cur[t].p))
                   /\ cur[t].n = Len(cur[t].p)
                   /\ cur[t].err = ShortRead
            /\ (/\ cur[t].op = "WriteAt"
                /\ cur[t].pc \in {"ret", "panic"}
                /\ ~I64Neg(cur[t].off) /\ I64Small(cur[t].off)) =>
                   /\ cur[t].pc = "ret"
                   /\ cur[t].err = NoErr
                   /\ Contents(files, heap, cur[t].name) =
                          Make(I64ToInt(cur[t].off)) \o cur[t].p
                   /\ FileSize(files, cur[t].name) =
                          I64ToInt(cur[t].off) + Len(cur[t].p)

\* a read in flight through one handle still holds the byte the file had
\* before the name was deleted; FileSize through the other handle, called
\* after the deletion, returns 0
C18_Witness ==
    \E t \in Threads, u \in Threads :
        /\ t # u
        /\ AtRet(t, "FileSize")
        /\ cur[t].fresh
        /\ cur[t].n = 0
        /\ cur[u].op = "ReadAt"
        /\ cur[u].pc = "r_copy"
        /\ cur[u].h # cur[t].h
        /\ ~cur[u].fresh
        /\ View(heap, cur[u].data) = <<1>>

(***************************************************************************)
(* C19.  Every byte is written or zero: after any sequence of WriteAt and  *)
(* Truncate on a name, each byte below the size has the value of the       *)
(* latest WriteAt that covered it since it was last at or beyond the end   *)
(* of the file (or since the buffer was created), and is zero when there   *)
(* is no such write.  Bytes cut off by a shrinking Truncate do not come    *)
(* back when Truncate or a WriteAt past the end extends the file again.    *)
(* (A name is left out while WriteAt's copy into its array is going on.)   *)
(***************************************************************************)
C19_WrittenOrZero ==
    \A name \in Names :
        (\A t \in Threads : ~(cur[t].pc = "w_copy" /\ cur[t].name = name)) =>
            Contents(files, heap, name) = written[name]

\* Truncate has extended a slice whose array held a non-zero byte beyond
\* the slice's end (cut off before): the byte at that index is zero now
C19_Witness ==
    \E t \in Threads :
        /\ AtRet(t, "Truncate")
        /\ cur[t].data.arr # 0
        /\ Len(heap[cur[t].data.arr]) > cur[t].data.len
        /\ heap[cur[t].data.arr][cur[t].data.len + 1] # 0
        /\ Len(Contents(files, heap, cur[t].name)) > cur[t].data.len
        /\ Contents(files, heap, cur[t].name)[cur[t].data.len + 1] = 0

(***************************************************************************)
(* C20.  Isolation between names: every step of a call on name n (ReadAt,  *)
(* WriteAt, Truncate, FileSize or Close through a handle on n, Delete(n))  *)
(* leaves the existence and the contents of every other name as they are,  *)
(* in every interleaving of goroutines working on different names: when    *)
(* the existence or the contents of a name m change in a step, the step is *)
(* a step of a call on m.                                                  *)
(***************************************************************************)
C20_NamesIsolated ==
    [][\A m \in Names :
          (\/ (m \in DOMAIN files') # (m \in DOMAIN files)
           \/ Contents(files', heap', m) # Contents(files, heap, m)) =>
              \E t \in Threads :
                  /\ cur'[t].pc # cur[t].pc \/ cur'[t].i # cur[t].i
                  /\ cur'[t].pc # "idle"
                  /\ cur'[t].name = m]_vars

\* Truncate has made one name a zero byte while a read of the other name,
\* whose contents are a written byte, is in progress
C20_Witness ==
    \E t \in Threads, u \in Threads :
        /\ AtRet(t, "Truncate")
        /\ Contents(files, heap, cur[t].name) = <<0>>
        /\ cur[u].pc = "r_copy"
        /\ cur[u].name # cur[t].name
        /\ Contents(files, heap, cur[u].name) = <<1>>

(***************************************************************************)
(* C21.  GetFile returns a read-only snapshot: the bytes a GetFile(n) call *)
(* returned are not changed by any later WriteAt, Truncate, Close or       *)
(* Delete on n through any handle, a WriteAt inside the current size       *)
(* included.  The code violates it: GetFile returns the map's slice, which *)
(* shares its backing array with the file, and WriteAt copies in place     *)
(* into that array when the write ends inside the file.                    *)
(***************************************************************************)
C21_GetFileSnapshot ==
    \A t \in Threads :
        cur[t].pc = "kept" => View(heap, cur[t].data) = cur[t].pre

(***************************************************************************)
(* C22.  Negative write offset: a WriteAt with a negative offset, one with *)
(* off + len(p) >= 0 included, returns an error to the caller; the failure *)
(* stays within that call, the store is as it was and can be used on.  The *)
(* code violates it: when off + len(p) >= 0 the check of newEnd passes and *)
(* the slice expression with the negative off panics.                      *)
(***************************************************************************)
C22_NegativeOffsetRejected ==
    \A t \in Threads :
        (/\ cur[t].op = "WriteAt"
         /\ cur[t].pc \in {"ret", "panic", "w_copy"}
         /\ I64Neg(cur[t].off)) =>
            /\ cur[t].pc = "ret"
            /\ cur[t].err # NoErr
            /\ cur[t].n = 0
            /\ ~crashed
            /\ Store(files, heap) = cur[t].pre

====
